---------------------------- MODULE Spec2Model ----------------------------
(***************************************************************************)
(* Model of bv-graph-wasm: the DiGraph structure (graph.rs) and the        *)
(* algorithms that read it (articulation.rs, coverage.rs).                 *)
(*                                                                         *)
(* Indices are zero-based as in the source; a Vec is a TLA+ sequence, so   *)
(* element i of a Vec v is v[i + 1].  Option<T> is <<>> (None) or <<x>>    *)
(* (Some(x)).                                                              *)
(***************************************************************************)
EXTENDS Integers, Sequences, FiniteSets, TLC

VARIABLES nodes, node_index, adj, rev_adj, edge_count, last

vars == <<nodes, node_index, adj, rev_adj, edge_count, last>>

(***************************************************************************)
(* Bounds of the model.                                                    *)
(***************************************************************************)
\* Node keys a caller may insert.
Keys == {"a", "b", "c"}

\* add_edge is not called once the graph would hold more edges than this.
MaxEdges == 3

\* Longest node list / edge list of a snapshot handed to from_json in Init.
MaxSnapNodes == 2

MaxSnapEdges == 1

(***************************************************************************)
(* Small helpers for Vec / Option.                                         *)
(***************************************************************************)
None == <<>>

Some(x) == <<x>>

Range(s) == {s[i] : i \in 1..Len(s)}

\* slice.contains(&x)
Contains(s, x) == \E i \in 1..Len(s) : s[i] = x

\* Vec::get(i)
Get(s, i) == IF i >= 0 /\ i < Len(s) THEN Some(s[i + 1]) ELSE None

(***************************************************************************)
(* DiGraph                                                                 *)
(***************************************************************************)
\* The struct, as a value.
DiGraph(ns, ni, a, ra, ec) ==
    [nodes |-> ns, node_index |-> ni, adj |-> a, rev_adj |-> ra, edge_count |-> ec]

\* The instance the actions work on.
Self == DiGraph(nodes, node_index, adj, rev_adj, edge_count)

\* DiGraph::new
new == DiGraph(<<>>, <<>>, <<>>, <<>>, 0)

\* DiGraph::with_capacity: capacities reserve memory only.
with_capacity(node_capacity, edge_capacity) == DiGraph(<<>>, <<>>, <<>>, <<>>, 0)

\* HashMap::insert
MapInsert(m, k, v) == [x \in (DOMAIN m) \cup {k} |-> IF x = k THEN v ELSE m[x]]

\* add_node without the lookup of an existing key.
add_node_no_lookup(g, id) ==
    LET idx == Len(g.nodes)
    IN  [graph |-> DiGraph(Append(g.nodes, id),
                           MapInsert(g.node_index, id, idx),
                           Append(g.adj, <<>>),
                           Append(g.rev_adj, <<>>),
                           g.edge_count),
         ret |-> idx]

\* add_node taking the new index after the push instead of before it.
add_node_index_after_push(g, id) ==
    IF id \in DOMAIN g.node_index
    THEN [graph |-> g, ret |-> g.node_index[id]]
    ELSE LET idx == Len(g.nodes) + 1
         IN  [graph |-> DiGraph(Append(g.nodes, id),
                                MapInsert(g.node_index, id, idx),
                                Append(g.adj, <<>>),
                                Append(g.rev_adj, <<>>),
                                g.edge_count),
              ret |-> idx]

\* DiGraph::add_node: the graph after the call and the returned index.
add_node(g, id) ==
    IF id \in DOMAIN g.node_index
    THEN [graph |-> g, ret |-> g.node_index[id]]
    ELSE LET idx == Len(g.nodes)
         IN  [graph |-> DiGraph(Append(g.nodes, id),
                                MapInsert(g.node_index, id, idx),
                                Append(g.adj, <<>>),
                                Append(g.rev_adj, <<>>),
                                g.edge_count),
              ret |-> idx]

\* add_edge without the scan for an existing edge.
add_edge_no_dup_check(g, from, to) ==
    IF from >= Len(g.nodes) \/ to >= Len(g.nodes)
    THEN g
    ELSE DiGraph(g.nodes,
                 g.node_index,
                 [g.adj EXCEPT ![from + 1] = Append(@, to)],
                 [g.rev_adj EXCEPT ![to + 1] = Append(@, from)],
                 g.edge_count + 1)

\* add_edge counting the call before the bounds check.
add_edge_count_first(g, from, to) ==
    IF from >= Len(g.nodes) \/ to >= Len(g.nodes)
    THEN [g EXCEPT !.edge_count = @ + 1]
    ELSE IF Contains(g.adj[from + 1], to)
    THEN g
    ELSE DiGraph(g.nodes,
                 g.node_index,
                 [g.adj EXCEPT ![from + 1] = Append(@, to)],
                 [g.rev_adj EXCEPT ![to + 1] = Append(@, from)],
                 g.edge_count + 1)

\* add_edge recording the predecessor in the row of the source.
add_edge_rev_row_of_source(g, from, to) ==
    IF from >= Len(g.nodes) \/ to >= Len(g.nodes)
    THEN g
    ELSE IF Contains(g.adj[from + 1], to)
    THEN g
    ELSE DiGraph(g.nodes,
                 g.node_index,
                 [g.adj EXCEPT ![from + 1] = Append(@, to)],
                 [g.rev_adj EXCEPT ![from + 1] = Append(@, to)],
                 g.edge_count + 1)

\* add_edge counting a repeated pair again without storing it.
add_edge_count_repeated(g, from, to) ==
    IF from >= Len(g.nodes) \/ to >= Len(g.nodes)
    THEN g
    ELSE IF Contains(g.adj[from + 1], to)
    THEN [g EXCEPT !.edge_count = @ + 1]
    ELSE DiGraph(g.nodes,
                 g.node_index,
                 [g.adj EXCEPT ![from + 1] = Append(@, to)],
                 [g.rev_adj EXCEPT ![to + 1] = Append(@, from)],
                 g.edge_count + 1)

\* DiGraph::add_edge: the graph after the call (the method returns nothing).
add_edge(g, from, to) ==
    IF from >= Len(g.nodes) \/ to >= Len(g.nodes)
    THEN g
    ELSE IF Contains(g.adj[from + 1], to)
    THEN g
    ELSE DiGraph(g.nodes,
                 g.node_index,
                 [g.adj EXCEPT ![from + 1] = Append(@, to)],
                 [g.rev_adj EXCEPT ![to + 1] = Append(@, from)],
                 g.edge_count + 1)

\* DiGraph::node_count / DiGraph::len
node_count(g) == Len(g.nodes)

\* DiGraph::node_id
node_id(g, idx) == Get(g.nodes, idx)

\* DiGraph::node_idx
node_idx(g, id) == IF id \in DOMAIN g.node_index THEN Some(g.node_index[id]) ELSE None

\* DiGraph::out_degree
out_degree(g, node) == IF node >= 0 /\ node < Len(g.adj) THEN Len(g.adj[node + 1]) ELSE 0

\* DiGraph::in_degree
in_degree(g, node) ==
    IF node >= 0 /\ node < Len(g.rev_adj) THEN Len(g.rev_adj[node + 1]) ELSE 0

\* DiGraph::successors_slice
successors_slice(g, node) ==
    IF node >= 0 /\ node < Len(g.adj) THEN g.adj[node + 1] ELSE <<>>

\* the successor row returned in place of the predecessor row
predecessors_slice_as_successors(g, node) ==
    IF node >= 0 /\ node < Len(g.adj) THEN g.adj[node + 1] ELSE <<>>

\* DiGraph::predecessors_slice
predecessors_slice(g, node) ==
    IF node >= 0 /\ node < Len(g.rev_adj) THEN g.rev_adj[node + 1] ELSE <<>>

\* the closure of DiGraph::edges with the pair written target first.
RowEdges_swapped(from, tos) == [i \in 1..Len(tos) |-> <<tos[i], from>>]

\* the closure of DiGraph::edges: the pairs (from, to) of one adjacency row
RowEdges(from, tos) == [i \in 1..Len(tos) |-> <<from, tos[i]>>]

\* DiGraph::edges / edges_vec: rows in index order, each row in stored order.
RECURSIVE EdgesUpTo(_, _)
EdgesUpTo(g, n) ==
    IF n = 0 THEN <<>>
    ELSE EdgesUpTo(g, n - 1) \o RowEdges(n - 1, g.adj[n])

edges_vec(g) == EdgesUpTo(g, Len(g.adj))

(***************************************************************************)
(* Snapshot export / import.  The JSON text is written and parsed by       *)
(* serde_json; the document is modelled by its structure: an object with   *)
(* "nodes" (array of strings) and "edges" (array of two-element arrays).   *)
(* Any other text is the value Malformed.                                  *)
(***************************************************************************)
Malformed == [malformed |-> TRUE]

\* struct GraphSnapshot
GraphSnapshot(ns, es) == [nodes |-> ns, edges |-> es]

\* DiGraph::to_json
to_json(g) == GraphSnapshot(g.nodes, edges_vec(g))

\* the first loop of from_json
RECURSIVE AddNodes(_, _)
AddNodes(g, ids) ==
    IF ids = <<>> THEN g
    ELSE AddNodes(add_node(g, Head(ids)).graph, Tail(ids))

\* the second loop of from_json
RECURSIVE AddEdges(_, _)
AddEdges(g, es) ==
    IF es = <<>> THEN g
    ELSE AddEdges(add_edge(g, Head(es)[1], Head(es)[2]), Tail(es))

\* DiGraph::from_json: Result<DiGraph, JsError>
from_json(json) ==
    IF json = Malformed
    THEN [ok |-> FALSE]
    ELSE [ok |-> TRUE,
          graph |-> AddEdges(AddNodes(with_capacity(Len(json.nodes), Len(json.edges)),
                                      json.nodes),
                             json.edges)]

(***************************************************************************)
(* The state machine of one DiGraph instance.                              *)
(***************************************************************************)
SetGraph(g) ==
    /\ nodes' = g.nodes
    /\ node_index' = g.node_index
    /\ adj' = g.adj
    /\ rev_adj' = g.rev_adj
    /\ edge_count' = g.edge_count

\* Sequences over S of length at most n.
SeqUpTo(S, n) == UNION {[1..k -> S] : k \in 0..n}

\* Snapshots given to from_json at construction: repeated keys, repeated
\* pairs and out-of-range pairs included.
Snapshots ==
    {GraphSnapshot(ns, es) :
        ns \in SeqUpTo(Keys, MaxSnapNodes),
        es \in SeqUpTo((0..MaxSnapNodes) \X (0..MaxSnapNodes), MaxSnapEdges)}

\* A graph is constructed by new() or by from_json().
Init ==
    \/ /\ nodes = new.nodes
       /\ node_index = new.node_index
       /\ adj = new.adj
       /\ rev_adj = new.rev_adj
       /\ edge_count = new.edge_count
       /\ last = [op |-> "new"]
    \/ \E json \in Snapshots :
          LET r == from_json(json)
          IN  /\ r.ok
              /\ nodes = r.graph.nodes
              /\ node_index = r.graph.node_index
              /\ adj = r.graph.adj
              /\ rev_adj = r.graph.rev_adj
              /\ edge_count = r.graph.edge_count
              /\ last = [op |-> "from_json", json |-> json]

\* g.add_node(id)
AddNode(id) ==
    LET r == add_node(Self, id)
    IN  /\ SetGraph(r.graph)
        /\ last' = [op |-> "add_node", id |-> id, ret |-> r.ret]

\* g.add_edge(from, to)
AddEdge(from, to) ==
    LET g2 == add_edge(Self, from, to)
    IN  /\ g2.edge_count <= MaxEdges
        /\ SetGraph(g2)
        /\ last' = [op |-> "add_edge", from |-> from, to |-> to]

\* DiGraph::from_json(&g.to_json())
RoundTrip ==
    /\ last' = [op |-> "roundtrip", ret |-> from_json(to_json(Self))]
    /\ UNCHANGED <<nodes, node_index, adj, rev_adj, edge_count>>

\* Indices a caller passes to add_edge: every valid one and the first
\* invalid ones.
EdgeArgs == 0..(Len(nodes) + 1)

Next ==
    \/ \E id \in Keys : AddNode(id)
    \/ \E from \in EdgeArgs, to \in EdgeArgs : AddEdge(from, to)
    \/ RoundTrip

Spec == Init /\ [][Next]_vars


(***************************************************************************)
(* articulation.rs                                                         *)
(***************************************************************************)
\* usize::MAX, the "no parent" mark of the DFS root.  The model's integers
\* end at 2^31 - 1; what the code relies on is that the mark is no node
\* index, which holds for this value as for 2^32 - 1 (wasm32).
USIZE_MAX == 2147483647

Min(a, b) == IF a < b THEN a ELSE b

Max(a, b) == IF a < b THEN b ELSE a

\* vec![x; n]
VecOf(x, n) == [i \in 1..n |-> x]

\* All orders in which the elements of a set can be listed.
RECURSIVE Orderings(_)
Orderings(S) ==
    IF S = {} THEN {<<>>}
    ELSE UNION {{<<x>> \o t : t \in Orderings(S \ {x})} : x \in S}

\* the sets filled in the direction of the stored edge only
neighbor_sets_directed(g) ==
    [i \in 1..node_count(g) |->
        {w \in 0..(node_count(g) - 1) :
            w # i - 1 /\ Contains(successors_slice(g, i - 1), w)}]

\* The HashSets filled by the loop of build_undirected_neighbors: for every
\* stored edge (u, v) with u # v, v is put in neighbors[u] and u in
\* neighbors[v].
neighbor_sets(g) ==
    [i \in 1..node_count(g) |->
        {w \in 0..(node_count(g) - 1) :
            /\ w # i - 1
            /\ \/ Contains(successors_slice(g, i - 1), w)
               \/ Contains(successors_slice(g, w), i - 1)}]

\* "neighbors.into_iter().map(|s| s.into_iter().collect()).collect()" for
\* the first k sets: every way to list each set.
RECURSIVE CollectOrders(_, _)
CollectOrders(sets, k) ==
    IF k = 0 THEN {<<>>}
    ELSE {Append(front, row) : front \in CollectOrders(sets, k - 1),
                               row \in Orderings(sets[k])}

\* build_undirected_neighbors: each HashSet is collected into a Vec in the
\* set's iteration order, which is not fixed; this is the set of the
\* Vec<Vec<usize>> values the function can return.
build_undirected_neighbors(g) ==
    LET sets == neighbor_sets(g)
    IN  CollectOrders(sets, Len(sets))

\* The arrays of the DFS: disc, low, parent, visited, the output (is_ap or
\* the bridge list) and the clock.
DfsState(n, out) ==
    [disc |-> VecOf(0, n), low |-> VecOf(0, n), parent |-> VecOf(USIZE_MAX, n),
     visited |-> VecOf(FALSE, n), out |-> out, time |-> 0]

\* the first four statements of tarjan_dfs / bridge_dfs
Enter(st, v) ==
    [st EXCEPT !.visited[v + 1] = TRUE,
               !.time = st.time + 1,
               !.disc[v + 1] = st.time + 1,
               !.low[v + 1] = st.time + 1]

\* the root reported as soon as it has one child
ap_root_case_any_child(st, v, children) == st.parent[v + 1] = USIZE_MAX /\ children > 0

\* Case 1 of tarjan_dfs: v is root with more than one DFS child.
ap_root_case(st, v, children) == st.parent[v + 1] = USIZE_MAX /\ children > 1

\* Case 2 with a strict comparison.
ap_inner_case_strict(st, v, u) ==
    st.parent[v + 1] # USIZE_MAX /\ st.low[u + 1] > st.disc[v + 1]

\* Case 2 of tarjan_dfs: v is not root and low[u] >= disc[v].
ap_inner_case(st, v, u) ==
    st.parent[v + 1] # USIZE_MAX /\ st.low[u + 1] >= st.disc[v + 1]

\* tarjan_dfs after the recursive call on child u returned st.
AfterChildAp(st, v, u, children) ==
    LET s1 == [st EXCEPT !.low[v + 1] = Min(st.low[v + 1], st.low[u + 1])]
    IN  IF ap_root_case(s1, v, children) \/ ap_inner_case(s1, v, u)
        THEN [s1 EXCEPT !.out[v + 1] = TRUE]
        ELSE s1

\* the low-link left as it is on a back edge
back_edge_low_unchanged(st, v, u) == st.low[v + 1]

\* Back edge (not to parent): low[v].min(disc[u])
back_edge_low(st, v, u) == Min(st.low[v + 1], st.disc[u + 1])

RECURSIVE tarjan_dfs(_, _, _)
RECURSIVE TarjanLoop(_, _, _, _, _)
\* the for loop of tarjan_dfs, from the i-th neighbour of v on
TarjanLoop(v, neighbors, st, i, children) ==
    IF i > Len(neighbors[v + 1]) THEN st
    ELSE LET u == neighbors[v + 1][i]
         IN  IF ~st.visited[u + 1]
             THEN TarjanLoop(v, neighbors,
                             AfterChildAp(tarjan_dfs(u, neighbors,
                                                     [st EXCEPT !.parent[u + 1] = v]),
                                          v, u, children + 1),
                             i + 1, children + 1)
             ELSE IF u # st.parent[v + 1]
             THEN TarjanLoop(v, neighbors,
                             [st EXCEPT !.low[v + 1] = back_edge_low(st, v, u)],
                             i + 1, children)
             ELSE TarjanLoop(v, neighbors, st, i + 1, children)

\* tarjan_dfs
tarjan_dfs(v, neighbors, st) == TarjanLoop(v, neighbors, Enter(st, v), 1, 0)

\* the loop "for start in 0..n" of articulation_points
RECURSIVE ApStarts(_, _, _)
ApStarts(start, neighbors, st) ==
    IF start >= Len(neighbors) THEN st
    ELSE IF ~st.visited[start + 1]
    THEN ApStarts(start + 1, neighbors, tarjan_dfs(start, neighbors, st))
    ELSE ApStarts(start + 1, neighbors, st)

\* is_ap.iter().enumerate().filter_map(..).collect(): the marked indices,
\* ascending.
RECURSIVE Marked(_, _)
Marked(flags, n) ==
    IF n = 0 THEN <<>>
    ELSE IF flags[n] THEN Append(Marked(flags, n - 1), n - 1)
    ELSE Marked(flags, n - 1)

\* articulation_points, given the value build_undirected_neighbors returned
articulation_points(g, neighbors) ==
    LET n == node_count(g)
    IN  IF n = 0 THEN <<>>
        ELSE Marked(ApStarts(0, neighbors, DfsState(n, VecOf(FALSE, n))).out, n)

\* the bridge test with a non-strict comparison
bridge_condition_nonstrict(st, v, u) == st.low[u + 1] >= st.disc[v + 1]

\* Bridge condition of bridge_dfs: low[u] > disc[v].
bridge_condition(st, v, u) == st.low[u + 1] > st.disc[v + 1]

\* the pair in traversal order
canonical_pair_traversal(v, u) == <<v, u>>

\* (v.min(u), v.max(u))
canonical_pair(v, u) == <<Min(v, u), Max(v, u)>>

\* bridge_dfs after the recursive call on child u returned st.
AfterChildBridge(st, v, u) ==
    LET s1 == [st EXCEPT !.low[v + 1] = Min(st.low[v + 1], st.low[u + 1])]
    IN  IF bridge_condition(s1, v, u)
        THEN [s1 EXCEPT !.out = Append(s1.out, canonical_pair(v, u))]
        ELSE s1

RECURSIVE bridge_dfs(_, _, _)
RECURSIVE BridgeLoop(_, _, _, _)
\* the for loop of bridge_dfs, from the i-th neighbour of v on
BridgeLoop(v, neighbors, st, i) ==
    IF i > Len(neighbors[v + 1]) THEN st
    ELSE LET u == neighbors[v + 1][i]
         IN  IF ~st.visited[u + 1]
             THEN BridgeLoop(v, neighbors,
                             AfterChildBridge(bridge_dfs(u, neighbors,
                                                         [st EXCEPT !.parent[u + 1] = v]),
                                              v, u),
                             i + 1)
             ELSE IF u # st.parent[v + 1]
             THEN BridgeLoop(v, neighbors,
                             [st EXCEPT !.low[v + 1] = back_edge_low(st, v, u)],
                             i + 1)
             ELSE BridgeLoop(v, neighbors, st, i + 1)

\* bridge_dfs
bridge_dfs(v, neighbors, st) == BridgeLoop(v, neighbors, Enter(st, v), 1)

\* the loop "for start in 0..n" of bridges
RECURSIVE BridgeStarts(_, _, _)
BridgeStarts(start, neighbors, st) ==
    IF start >= Len(neighbors) THEN st
    ELSE IF ~st.visited[start + 1]
    THEN BridgeStarts(start + 1, neighbors, bridge_dfs(start, neighbors, st))
    ELSE BridgeStarts(start + 1, neighbors, st)

\* bridges, given the value build_undirected_neighbors returned
bridges(g, neighbors) ==
    LET n == node_count(g)
    IN  IF n = 0 THEN <<>>
        ELSE BridgeStarts(0, neighbors, DfsState(n, <<>>)).out

(***************************************************************************)
(* coverage.rs                                                             *)
(***************************************************************************)
\* struct CoverageItem
CoverageItem(node, edges_added) == [node |-> node, edges_added |-> edges_added]

\* struct CoverageResult
CoverageResult(items, edges_covered, total_edges, coverage_ratio) ==
    [items |-> items, edges_covered |-> edges_covered,
     total_edges |-> total_edges, coverage_ratio |-> coverage_ratio]

\* An f64 quotient a / b of two counts, kept exact as a fraction; 1.0 is
\* Ratio(1, 1) and 0.0 is Ratio(0, 1).
Ratio(a, b) == [num |-> a, den |-> b]

\* the scan counting the outgoing edges of v only
uncovered_count_successors_only(g, covered, v) ==
    LET succ == successors_slice(g, v)
    IN  Cardinality({i \in 1..Len(succ) : <<v, succ[i]>> \notin covered})

\* The inner loops of the scan: the uncovered outgoing edges (v, w) plus
\* the uncovered incoming edges (u, v), each list entry counted.
uncovered_count(g, covered, v) ==
    LET succ == successors_slice(g, v)
        pred == predecessors_slice(g, v)
    IN  Cardinality({i \in 1..Len(succ) : <<v, succ[i]>> \notin covered})
        + Cardinality({i \in 1..Len(pred) : <<pred[i], v>> \notin covered})

\* "for v in 0..n" of coverage_set: the running best node and best count;
\* a later node replaces the best only with a strictly larger count.
RECURSIVE ScanBest(_, _, _, _, _)
ScanBest(g, covered, v, best_node, best_count) ==
    IF v >= node_count(g) THEN [best_node |-> best_node, best_count |-> best_count]
    ELSE LET count == uncovered_count(g, covered, v)
         IN  IF count > best_count
             THEN ScanBest(g, covered, v + 1, Some(v), count)
             ELSE ScanBest(g, covered, v + 1, best_node, best_count)

\* every edge of the graph marked covered when a node is selected
mark_covered_all_edges(g, covered, node) ==
    covered
    \cup {<<u, w>> : u \in 0..(node_count(g) - 1), w \in 0..(node_count(g) - 1)}

\* only the outgoing edges marked covered when node is selected
mark_covered_outgoing_only(g, covered, node) ==
    covered \cup {<<node, w>> : w \in Range(successors_slice(g, node))}

\* The edges marked covered when node is selected.
mark_covered(g, covered, node) ==
    covered
    \cup {<<node, w>> : w \in Range(successors_slice(g, node))}
    \cup {<<u, node>> : u \in Range(predecessors_slice(g, node))}

\* the range of the selection loop with an inclusive upper end
round_in_range_inclusive(round, limit) == round <= limit

\* "for _ in 0..limit": round is in the range.
round_in_range(round, limit) == round < limit

\* The selection loop of coverage_set from the given round on.
RECURSIVE SelectLoop(_, _, _, _)
SelectLoop(g, limit, round, st) ==
    IF ~round_in_range(round, limit) THEN st
    ELSE LET best == ScanBest(g, st.covered, 0, None, 0)
         IN  IF best.best_node # None /\ best.best_count > 0
             THEN SelectLoop(g, limit, round + 1,
                     [covered |-> mark_covered(g, st.covered, best.best_node[1]),
                      selected |-> Append(st.selected,
                                          CoverageItem(best.best_node[1], best.best_count)),
                      edges_covered |-> st.edges_covered + best.best_count])
             ELSE st

\* the early return reporting 0.0 whatever the edge count
early_ratio_zero(total_edges) == Ratio(0, 1)

\* "if total_edges == 0 { 1.0 } else { 0.0 }" of the early return
early_ratio(total_edges) == IF total_edges = 0 THEN Ratio(1, 1) ELSE Ratio(0, 1)

\* coverage_set
coverage_set(g, limit) ==
    LET n == node_count(g)
        total_edges == g.edge_count
    IN  IF n = 0 \/ total_edges = 0
        THEN CoverageResult(<<>>, 0, total_edges, early_ratio(total_edges))
        ELSE LET st == SelectLoop(g, limit, 0,
                                  [covered |-> {}, selected |-> <<>>, edges_covered |-> 0])
             IN  CoverageResult(st.selected, st.edges_covered, total_edges,
                                IF total_edges > 0
                                THEN Ratio(st.edges_covered, total_edges)
                                ELSE Ratio(1, 1))

(***************************************************************************)
(* subgraph.rs                                                             *)
(***************************************************************************)
\* the node count taken one too small
len_off_by_one(g) == Len(g.nodes) - 1

\* DiGraph::len
len(g) == Len(g.nodes)

\* extract_subgraph, first loop: "for &old_idx in node_indices" from the i-th
\* entry on; st holds index_map and new_graph.
RECURSIVE SubgraphNodes(_, _, _, _)
SubgraphNodes(graph, node_indices, i, st) ==
    IF i > Len(node_indices) THEN st
    ELSE LET old_idx == node_indices[i]
             id == node_id(graph, old_idx)
         IN  IF old_idx < len(graph) /\ id # None
             THEN LET r == add_node(st.new_graph, id[1])
                  IN  SubgraphNodes(graph, node_indices, i + 1,
                         [index_map |-> MapInsert(st.index_map, old_idx, r.ret),
                          new_graph |-> r.graph])
             ELSE SubgraphNodes(graph, node_indices, i + 1, st)

\* the edge of the subgraph inserted with its endpoints exchanged
subgraph_edge_reversed(new_graph, new_from, new_to) ==
    add_edge(new_graph, new_to, new_from)

\* new_graph.add_edge(new_from, new_to)
subgraph_edge(new_graph, new_from, new_to) ==
    add_edge(new_graph, new_from, new_to)

\* extract_subgraph, inner loop of the second loop: "for &old_to in
\* graph.successors_slice(old_from)" from the j-th successor on.
RECURSIVE SubgraphRow(_, _, _, _, _)
SubgraphRow(succ, j, index_map, new_from, new_graph) ==
    IF j > Len(succ) THEN new_graph
    ELSE LET old_to == succ[j]
         IN  IF old_to \in DOMAIN index_map
             THEN SubgraphRow(succ, j + 1, index_map, new_from,
                              subgraph_edge(new_graph, new_from, index_map[old_to]))
             ELSE SubgraphRow(succ, j + 1, index_map, new_from, new_graph)

\* extract_subgraph, second loop: "for &old_from in node_indices" from the
\* i-th entry on.
RECURSIVE SubgraphEdges(_, _, _, _, _)
SubgraphEdges(graph, node_indices, i, index_map, new_graph) ==
    IF i > Len(node_indices) THEN new_graph
    ELSE LET old_from == node_indices[i]
         IN  IF old_from \in DOMAIN index_map
             THEN SubgraphEdges(graph, node_indices, i + 1, index_map,
                     SubgraphRow(successors_slice(graph, old_from), 1, index_map,
                                 index_map[old_from], new_graph))
             ELSE SubgraphEdges(graph, node_indices, i + 1, index_map, new_graph)

\* extract_subgraph
extract_subgraph(graph, node_indices) ==
    LET n == len(graph)
    IN  IF Len(node_indices) = 0 \/ n = 0 THEN new
        ELSE LET st == SubgraphNodes(graph, node_indices, 1,
                          [index_map |-> <<>>,
                           new_graph |-> with_capacity(Len(node_indices),
                                                       Len(node_indices) * 2)])
             IN  SubgraphEdges(graph, node_indices, 1, st.index_map, st.new_graph)

\* The state of a breadth-first search at its start: visited[source] = true,
\* result.push(source), queue.push_back(source).
BfsStart(n, source) ==
    [visited |-> [i \in 1..n |-> i = source + 1],
     result |-> <<source>>,
     queue |-> <<source>>]

\* "for &w in <slice>" of a search, from the j-th entry of the slice on: an
\* unvisited w is marked, pushed on result and on the queue.
RECURSIVE VisitSlice(_, _, _)
VisitSlice(slice, j, st) ==
    IF j > Len(slice) THEN st
    ELSE LET w == slice[j]
         IN  IF ~st.visited[w + 1]
             THEN VisitSlice(slice, j + 1,
                     [visited |-> [st.visited EXCEPT ![w + 1] = TRUE],
                      result |-> Append(st.result, w),
                      queue |-> Append(st.queue, w)])
             ELSE VisitSlice(slice, j + 1, st)

\* "while let Some(v) = queue.pop_front()" of reachable_from
RECURSIVE ReachableFromLoop(_, _)
ReachableFromLoop(graph, st) ==
    IF st.queue = <<>> THEN st.result
    ELSE LET v == Head(st.queue)
         IN  ReachableFromLoop(graph,
                VisitSlice(successors_slice(graph, v), 1,
                           [st EXCEPT !.queue = Tail(st.queue)]))

\* reachable_from
reachable_from(graph, source) ==
    LET n == len(graph)
    IN  IF source >= n THEN <<>>
        ELSE ReachableFromLoop(graph, BfsStart(n, source))

\* "while let Some(v) = queue.pop_front()" of reachable_to
RECURSIVE ReachableToLoop(_, _)
ReachableToLoop(graph, st) ==
    IF st.queue = <<>> THEN st.result
    ELSE LET v == Head(st.queue)
         IN  ReachableToLoop(graph,
                VisitSlice(predecessors_slice(graph, v), 1,
                           [st EXCEPT !.queue = Tail(st.queue)]))

\* reachable_to
reachable_to(graph, target) ==
    LET n == len(graph)
    IN  IF target >= n THEN <<>>
        ELSE ReachableToLoop(graph, BfsStart(n, target))

\* the node pushed without the "contains" test
cone_push_unchecked(all, v) == Append(all, v)

\* "if !all.contains(&v) { all.push(v) }"
cone_push(all, v) == IF ~Contains(all, v) THEN Append(all, v) ELSE all

\* "for v in to" of dependency_cone, from the i-th entry on.
RECURSIVE ConeLoop(_, _, _)
ConeLoop(to, i, all) ==
    IF i > Len(to) THEN all
    ELSE ConeLoop(to, i + 1, cone_push(all, to[i]))

\* dependency_cone
dependency_cone(graph, node) ==
    LET from == reachable_to(graph, node)
        to == reachable_from(graph, node)
    IN  ConeLoop(to, 1, from)

(***************************************************************************)
(* The algorithms applied to graphs.  A graph is built the way the tests'  *)
(* make_graph builds one (the nodes n0, n1, ... first, then the edges) and *)
(* then analysed; the algorithms borrow the graph immutably, so a call     *)
(* leaves its fields as they are.  The edges are inserted in ascending     *)
(* order (by source, then target): articulation.rs reads the adjacency     *)
(* only through the HashSets of build_undirected_neighbors and coverage.rs *)
(* only through counts and set inserts, so the order of a row does not     *)
(* reach either result.                                                    *)
(***************************************************************************)
\* Most nodes and most edges of a graph the algorithms are applied to, and
\* the largest limit given to coverage_set.
MaxAlgNodes == 4

MaxAlgEdges == 4

MaxLimit == 5

\* Keys as make_graph names them: format!("n{}", i).
AlgKeys == <<"n0", "n1", "n2", "n3", "n4", "n5", "n6", "n7">>

\* The last call was one of the algorithms.
Analysed == last.op \in {"articulation_points", "bridges", "coverage_set"}

InitAlg ==
    /\ nodes = new.nodes
    /\ node_index = new.node_index
    /\ adj = new.adj
    /\ rev_adj = new.rev_adj
    /\ edge_count = new.edge_count
    /\ last = [op |-> "new"]

\* make_graph: g.add_node(&format!("n{}", i))
BuildNode ==
    /\ ~Analysed
    /\ edge_count = 0
    /\ Len(nodes) < MaxAlgNodes
    /\ AddNode(AlgKeys[Len(nodes) + 1])

\* make_graph: g.add_edge(from, to), the pairs in ascending order
BuildEdge(from, to) ==
    /\ ~Analysed
    /\ edge_count < MaxAlgEdges
    /\ \A u \in 0..(Len(adj) - 1) :
          \A v \in Range(adj[u + 1]) : u < from \/ (u = from /\ v < to)
    /\ SetGraph(add_edge(Self, from, to))
    /\ last' = [op |-> "add_edge", from |-> from, to |-> to]

\* articulation_points(&g)
ArticulationPoints ==
    /\ ~Analysed
    /\ \E neighbors \in build_undirected_neighbors(Self) :
          last' = [op |-> "articulation_points",
                   ret |-> articulation_points(Self, neighbors)]
    /\ UNCHANGED <<nodes, node_index, adj, rev_adj, edge_count>>

\* bridges(&g)
Bridges ==
    /\ ~Analysed
    /\ \E neighbors \in build_undirected_neighbors(Self) :
          last' = [op |-> "bridges", ret |-> bridges(Self, neighbors)]
    /\ UNCHANGED <<nodes, node_index, adj, rev_adj, edge_count>>

\* coverage_set(&g, limit)
CoverageSet(limit) ==
    /\ ~Analysed
    /\ last' = [op |-> "coverage_set", limit |-> limit,
                ret |-> coverage_set(Self, limit)]
    /\ UNCHANGED <<nodes, node_index, adj, rev_adj, edge_count>>

\* articulation.rs on every graph within the bounds
NextCut ==
    \/ BuildNode
    \/ \E from \in 0..(Len(nodes) - 1), to \in 0..(Len(nodes) - 1) : BuildEdge(from, to)
    \/ ArticulationPoints
    \/ Bridges

SpecCut == InitAlg /\ [][NextCut]_vars

\* coverage.rs on every graph within the bounds
NextCov ==
    \/ BuildNode
    \/ \E from \in 0..(Len(nodes) - 1), to \in 0..(Len(nodes) - 1) : BuildEdge(from, to)
    \/ \E limit \in 0..MaxLimit : CoverageSet(limit)

SpecCov == InitAlg /\ [][NextCov]_vars

\* articulation.rs and coverage.rs on every graph within the bounds
NextAlg ==
    \/ BuildNode
    \/ \E from \in 0..(Len(nodes) - 1), to \in 0..(Len(nodes) - 1) : BuildEdge(from, to)
    \/ ArticulationPoints
    \/ Bridges
    \/ \E limit \in 0..MaxLimit : CoverageSet(limit)

SpecAlg == InitAlg /\ [][NextAlg]_vars

(***************************************************************************)
(* articulation.rs applied to graphs that are compared with the graphs got *)
(* from them by reversing an edge, adding an antiparallel edge or adding a *)
(* self-loop; built as above.                                              *)
(***************************************************************************)
\* Most nodes and most edges of a graph that is compared.
MaxViewNodes == 3

MaxViewEdges == 4

\* make_graph: g.add_node(&format!("n{}", i))
ViewNode ==
    /\ ~Analysed
    /\ edge_count = 0
    /\ Len(nodes) < MaxViewNodes
    /\ AddNode(AlgKeys[Len(nodes) + 1])

\* make_graph: g.add_edge(from, to), the pairs in ascending order
ViewEdge(from, to) ==
    /\ ~Analysed
    /\ edge_count < MaxViewEdges
    /\ \A u \in 0..(Len(adj) - 1) :
          \A v \in Range(adj[u + 1]) : u < from \/ (u = from /\ v < to)
    /\ SetGraph(add_edge(Self, from, to))
    /\ last' = [op |-> "add_edge", from |-> from, to |-> to]

NextView ==
    \/ ViewNode
    \/ \E from \in 0..(Len(nodes) - 1), to \in 0..(Len(nodes) - 1) : ViewEdge(from, to)
    \/ ArticulationPoints
    \/ Bridges

SpecView == InitAlg /\ [][NextView]_vars

(***************************************************************************)
(* articulation.rs applied to cycles.  Two disjoint triangles need six     *)
(* nodes, so the graphs are built from the six keys of                     *)
(* test_articulation_disconnected with every node joined to at most two    *)
(* others (which is what a union of cycles is made of), each edge in       *)
(* either direction, and analysed once every node lies on a cycle.         *)
(***************************************************************************)
\* Keys of test_articulation_disconnected.
RingKeys == <<"a", "b", "c", "d", "e", "f">>

\* The number of edges at node v, in either direction.
Degree(g, v) == out_degree(g, v) + in_degree(g, v)

\* g is a cycle or a disjoint union of cycles of three or more nodes: no
\* self-loop, no pair of nodes joined twice, every node joined to exactly
\* two others.
IsCycleUnion(g) ==
    /\ node_count(g) >= 3
    /\ \A u \in 0..(node_count(g) - 1) :
          \A v \in Range(g.adj[u + 1]) : u # v /\ ~Contains(g.adj[v + 1], u)
    /\ \A v \in 0..(node_count(g) - 1) : Degree(g, v) = 2

\* graph.add_node("a"), ...
RingNode ==
    /\ ~Analysed
    /\ edge_count = 0
    /\ Len(nodes) < Len(RingKeys)
    /\ AddNode(RingKeys[Len(nodes) + 1])

\* graph.add_edge(from, to) between two nodes that are not joined yet and
\* have fewer than two edges each, the pairs in ascending order
RingEdge(from, to) ==
    /\ ~Analysed
    /\ from # to
    /\ ~Contains(adj[from + 1], to)
    /\ ~Contains(adj[to + 1], from)
    /\ Degree(Self, from) < 2
    /\ Degree(Self, to) < 2
    /\ \A u \in 0..(Len(adj) - 1) :
          \A v \in Range(adj[u + 1]) : u < from \/ (u = from /\ v < to)
    /\ SetGraph(add_edge(Self, from, to))
    /\ last' = [op |-> "add_edge", from |-> from, to |-> to]

\* articulation_points(&graph) on a union of cycles
RingArticulationPoints ==
    /\ IsCycleUnion(Self)
    /\ ArticulationPoints

\* bridges(&graph) on a union of cycles
RingBridges ==
    /\ IsCycleUnion(Self)
    /\ Bridges

NextRing ==
    \/ RingNode
    \/ \E from \in 0..(Len(nodes) - 1), to \in 0..(Len(nodes) - 1) : RingEdge(from, to)
    \/ RingArticulationPoints
    \/ RingBridges

SpecRing == InitAlg /\ [][NextRing]_vars

(***************************************************************************)
(* coverage.rs applied to a layered graph, built as make_graph builds it.  *)
(* The nodes 14..19 touch every edge.  The nodes 0..13 are laid out in     *)
(* layers: node 0 is joined to all six of 14..19, node 1 to five of them,  *)
(* node 2 to four, nodes 3 and 4 to three each, nodes 5..7 to two each and *)
(* nodes 8..13 to one each, the nodes of one layer to different ones.      *)
(***************************************************************************)
LayeredKeys == <<
    "n0", "n1", "n2", "n3", "n4", "n5", "n6", "n7", "n8", "n9", "n10",
    "n11", "n12", "n13", "n14", "n15", "n16", "n17", "n18", "n19" >>

LayeredEdges == <<
    <<0, 14>>, <<0, 15>>, <<0, 16>>, <<0, 17>>, <<0, 18>>, <<0, 19>>,
    <<1, 14>>, <<1, 15>>, <<1, 16>>, <<1, 17>>, <<1, 18>>, <<2, 14>>,
    <<2, 15>>, <<2, 16>>, <<2, 17>>, <<3, 14>>, <<3, 15>>, <<3, 16>>,
    <<4, 17>>, <<4, 18>>, <<4, 19>>, <<5, 14>>, <<5, 15>>, <<6, 16>>,
    <<6, 17>>, <<7, 18>>, <<7, 19>>, <<8, 14>>, <<9, 15>>, <<10, 16>>,
    <<11, 17>>, <<12, 18>>, <<13, 19>> >>

\* make_graph: g.add_node(&format!("n{}", i))
LayeredNode ==
    /\ ~Analysed
    /\ Len(nodes) < Len(LayeredKeys)
    /\ AddNode(LayeredKeys[Len(nodes) + 1])

\* make_graph: g.add_edge(*from, *to), the next pair of the list
LayeredEdge ==
    /\ ~Analysed
    /\ Len(nodes) = Len(LayeredKeys)
    /\ edge_count < Len(LayeredEdges)
    /\ SetGraph(add_edge(Self, LayeredEdges[edge_count + 1][1],
                         LayeredEdges[edge_count + 1][2]))
    /\ last' = [op |-> "add_edge", from |-> LayeredEdges[edge_count + 1][1],
                to |-> LayeredEdges[edge_count + 1][2]]

\* The limits from the node count on that the graph is analysed with.
LayeredLimits == node_count(Self)..(node_count(Self) + 1)

NextLayered ==
    \/ LayeredNode
    \/ LayeredEdge
    \/ \E limit \in LayeredLimits : CoverageSet(limit)

SpecLayered == InitAlg /\ [][NextLayered]_vars

(***************************************************************************)
(* subgraph.rs applied to graphs.  extract_subgraph and the searches walk  *)
(* the adjacency rows in their stored order, so the graph is built with    *)
(* its edges inserted in every order; the keys are inserted as the tests   *)
(* of subgraph.rs insert them.                                             *)
(***************************************************************************)
\* Keys in the order the tests of subgraph.rs insert them.
SubKeys == <<"a", "b", "c">>

\* Longest index list given to extract_subgraph.
MaxListLen == 3

\* The last call was one of the functions of subgraph.rs.
AnalysedSub ==
    last.op \in {"subgraph", "reachable_from", "reachable_to", "dependency_cone"}

\* graph.add_node("a"), ...
SubNode ==
    /\ ~AnalysedSub
    /\ Len(nodes) < Len(SubKeys)
    /\ AddNode(SubKeys[Len(nodes) + 1])

\* graph.add_edge(from, to)
SubEdge(from, to) ==
    /\ ~AnalysedSub
    /\ AddEdge(from, to)

\* DiGraph::subgraph(&self, indices)
Subgraph(indices) ==
    /\ ~AnalysedSub
    /\ last' = [op |-> "subgraph", indices |-> indices,
                ret |-> extract_subgraph(Self, indices)]
    /\ UNCHANGED <<nodes, node_index, adj, rev_adj, edge_count>>

\* DiGraph::reachable_from(&self, source)
ReachableFrom(source) ==
    /\ ~AnalysedSub
    /\ last' = [op |-> "reachable_from", node |-> source,
                ret |-> reachable_from(Self, source)]
    /\ UNCHANGED <<nodes, node_index, adj, rev_adj, edge_count>>

\* DiGraph::reachable_to(&self, target)
ReachableTo(target) ==
    /\ ~AnalysedSub
    /\ last' = [op |-> "reachable_to", node |-> target,
                ret |-> reachable_to(Self, target)]
    /\ UNCHANGED <<nodes, node_index, adj, rev_adj, edge_count>>

\* DiGraph::dependency_cone(&self, node)
DependencyCone(node) ==
    /\ ~AnalysedSub
    /\ last' = [op |-> "dependency_cone", node |-> node,
                ret |-> dependency_cone(Self, node)]
    /\ UNCHANGED <<nodes, node_index, adj, rev_adj, edge_count>>

\* Node arguments: every index of the graph and one past the end.
NodeArgs == 0..Len(nodes)

NextSub ==
    \/ SubNode
    \/ \E from \in 0..(Len(nodes) - 1), to \in 0..(Len(nodes) - 1) : SubEdge(from, to)
    \/ \E indices \in SeqUpTo(NodeArgs, MaxListLen) : Subgraph(indices)
    \/ \E source \in NodeArgs : ReachableFrom(source)
    \/ \E target \in NodeArgs : ReachableTo(target)
    \/ \E node \in NodeArgs : DependencyCone(node)

SpecSub == InitAlg /\ [][NextSub]_vars

(***************************************************************************)
(* Properties of the Graph Model (specification Spec).                     *)
(***************************************************************************)
GraphUnchanged ==
    /\ nodes' = nodes
    /\ node_index' = node_index
    /\ adj' = adj
    /\ rev_adj' = rev_adj
    /\ edge_count' = edge_count

\* The set of ordered edges stored in g.
EdgeSet(g) == {<<u, v>> \in (0..(Len(g.adj) - 1)) \X (0..(Len(g.adj) - 1)) :
                  Contains(g.adj[u + 1], v)}

\* A sequence without repeated elements.
NoDup(s) == \A i, j \in 1..Len(s) : s[i] = s[j] => i = j

\* C1: add_node with a key that is already present returns the index the key
\* was first given (its position in the insertion-ordered node list, which
\* is also what the index map holds) and changes nothing of the graph.
C1_AddNodeIdempotent ==
    [][(last'.op = "add_node" /\ last'.id \in Range(nodes))
          => /\ GraphUnchanged
             /\ last'.ret = node_index[last'.id]
             /\ \A i \in 0..(Len(nodes) - 1) :
                   nodes[i + 1] = last'.id => last'.ret = i]_vars

\* add_node was called with a key inserted earlier, in a graph with edges.
C1_Witness ==
    /\ last.op = "add_node"
    /\ last.ret + 1 < Len(nodes)
    /\ edge_count > 0

\* C2: add_edge(from, to) for a pair that is already an edge changes neither
\* edge_count nor any successor or predecessor list; a pair that is not yet
\* an edge is counted as one more edge even when the opposite pair is
\* already present, so (u, v) followed by (v, u) counts two edges.
C2_AddEdgeIdempotent ==
    [][(/\ last'.op = "add_edge"
        /\ last'.from < Len(nodes)
        /\ last'.to < Len(nodes))
          => IF Contains(adj[last'.from + 1], last'.to)
             THEN /\ edge_count' = edge_count
                  /\ adj' = adj
                  /\ rev_adj' = rev_adj
             ELSE /\ edge_count' = edge_count + 1
                  /\ Contains(adj'[last'.from + 1], last'.to)
                  /\ (Contains(adj[last'.to + 1], last'.from) /\ last'.from # last'.to
                        => edge_count' >= 2)]_vars

\* add_edge(u, v) was repeated (v is an older successor of u than the
\* newest one, so this call did not insert it) in a graph that also holds
\* (v, u), with all three edges counted.
C2_Witness ==
    /\ last.op = "add_edge"
    /\ last.from < Len(nodes)
    /\ last.to < Len(nodes)
    /\ last.from # last.to
    /\ Len(adj[last.from + 1]) = 2
    /\ adj[last.from + 1][1] = last.to
    /\ Contains(adj[last.to + 1], last.from)
    /\ edge_count = 3

\* C3: add_edge with from or to outside [0, node_count) changes nothing of
\* the graph (the method has no error to report: it returns nothing).
C3_AddEdgeOutOfRange ==
    [][(/\ last'.op = "add_edge"
        /\ (last'.from >= Len(nodes) \/ last'.to >= Len(nodes)))
          => GraphUnchanged]_vars

\* add_edge was called with an out-of-range endpoint on the empty graph.
C3_Witness ==
    /\ last.op = "add_edge"
    /\ Len(nodes) = 0
    /\ edge_count = 0

\* The index <-> key mapping of one state: node_idx and node_id are inverse
\* to each other on [0, node_count) and the inserted keys, and defined
\* nowhere else.
C4_Bijection ==
    /\ DOMAIN node_index = Range(nodes)
    /\ \A i \in 0..(Len(nodes) - 1) :
          /\ node_id(Self, i) # None
          /\ node_idx(Self, node_id(Self, i)[1]) = Some(i)
    /\ \A k \in Keys :
          node_idx(Self, k) # None
             => node_id(Self, node_idx(Self, k)[1]) = Some(k)
    /\ node_id(Self, Len(nodes)) = None

\* One step: a new key gets the node count before the call; no key or index
\* that is present changes.
C4_IndexStep ==
    /\ (last'.op = "add_node" /\ last'.id \notin Range(nodes))
          => /\ last'.ret = Len(nodes)
             /\ node_idx(Self', last'.id) = Some(Len(nodes))
             /\ Len(nodes') = Len(nodes) + 1
    /\ \A k \in Keys :
          node_idx(Self, k) # None => node_idx(Self, k)' = node_idx(Self, k)
    /\ \A i \in 0..(Len(nodes) - 1) : node_id(Self, i)' = node_id(Self, i)

\* C4: index <-> key is a bijection between [0, node_count) and the keys
\* inserted; a new key gets the node count before the call as its index;
\* the index of a key and the key of an index never change afterwards.
C4_IndexKeyBijectionStable == [](C4_Bijection) /\ [][C4_IndexStep]_vars

\* add_node inserted a third key after edges were added.
C4_Witness ==
    /\ last.op = "add_node"
    /\ last.ret = 2
    /\ Len(nodes) = 3
    /\ edge_count > 0

\* C5: adj and rev_adj have node_count rows, every stored endpoint is below
\* node_count, no row repeats an element, and v is a successor of u exactly
\* when u is a predecessor of v.
C5_AdjacencyConsistent ==
    /\ Len(adj) = Len(nodes)
    /\ Len(rev_adj) = Len(nodes)
    /\ \A u \in 0..(Len(nodes) - 1) :
          /\ \A v \in Range(adj[u + 1]) \cup Range(rev_adj[u + 1]) :
                v >= 0 /\ v < Len(nodes)
          /\ NoDup(adj[u + 1])
          /\ NoDup(rev_adj[u + 1])
    /\ \A u, v \in 0..(Len(nodes) - 1) :
          Contains(adj[u + 1], v) <=> Contains(rev_adj[v + 1], u)

\* A graph with a self-loop and a node that has two predecessors.
C5_Witness ==
    /\ Len(nodes) = 3
    /\ \E u \in 0..2 : Contains(adj[u + 1], u)
    /\ \E v \in 0..2 : Len(rev_adj[v + 1]) = 2

\* C6: from_json(to_json(g)) succeeds and gives a graph with the same node
\* count, the same key at every index, the same edge count and the same set
\* of ordered edges.
C6_JsonRoundTrip ==
    last.op = "roundtrip"
       => /\ last.ret.ok
          /\ node_count(last.ret.graph) = node_count(Self)
          /\ \A i \in 0..(Len(nodes) - 1) :
                node_id(last.ret.graph, i) = node_id(Self, i)
          /\ \A k \in Keys : node_idx(last.ret.graph, k) = node_idx(Self, k)
          /\ last.ret.graph.edge_count = edge_count
          /\ EdgeSet(last.ret.graph) = EdgeSet(Self)

\* A graph with a self-loop and a pair of antiparallel edges was round-tripped.
C6_Witness ==
    /\ last.op = "roundtrip"
    /\ Len(nodes) = 3
    /\ \E u \in 0..2 : Contains(adj[u + 1], u)
    /\ \E u, v \in 0..2 : u # v /\ Contains(adj[u + 1], v) /\ Contains(adj[v + 1], u)

(***************************************************************************)
(* Properties of articulation.rs (SpecCut) and coverage.rs (SpecCov).      *)
(*                                                                         *)
(* The undirected simple view and what "articulation point" and "bridge"   *)
(* mean (articulation.rs doc comments): directions ignored, self-loops and *)
(* duplicate pairs dropped; a vertex or edge whose removal increases the   *)
(* number of connected components.                                         *)
(***************************************************************************)
Vertices(g) == 0..(node_count(g) - 1)

UndirectedEdges(g) == {{e[1], e[2]} : e \in {x \in EdgeSet(g) : x[1] # x[2]}}

\* The vertices of V joined to a vertex of R by edges of E, R included.
RECURSIVE Grow(_, _, _)
Grow(V, E, R) ==
    LET R2 == R \cup {w \in V : \E r \in R : {r, w} \in E}
    IN  IF R2 = R THEN R ELSE Grow(V, E, R2)

ConnectedComponents(V, E) == {Grow(V, E, {s}) : s \in V}

CutVertices(g) ==
    LET V == Vertices(g)
        E == UndirectedEdges(g)
        whole == Cardinality(ConnectedComponents(V, E))
    IN  {v \in V :
            Cardinality(ConnectedComponents(V \ {v}, {e \in E : v \notin e})) > whole}

CutEdges(g) ==
    LET V == Vertices(g)
        E == UndirectedEdges(g)
        whole == Cardinality(ConnectedComponents(V, E))
    IN  {e \in E : Cardinality(ConnectedComponents(V, E \ {e})) > whole}

\* The hubs of g when g is a star with at least two leaves: every stored
\* edge joins the hub and a leaf, in either direction, and every other node
\* is a leaf.
StarHubs(g) ==
    {h \in Vertices(g) :
        /\ node_count(g) >= 3
        /\ \A e \in EdgeSet(g) : (e[1] = h) # (e[2] = h)
        /\ \A l \in Vertices(g) \ {h} : {h, l} \in UndirectedEdges(g)}

\* C7: articulation_points returns exactly the vertices whose removal
\* increases the number of connected components of the undirected simple
\* view, each once, whatever order the neighbour sets are iterated in; for
\* a star with two or more leaves that is the hub alone, whichever index
\* the hub has.
C7_ArticulationPointsExact ==
    last.op = "articulation_points"
       => /\ Range(last.ret) = CutVertices(Self)
          /\ NoDup(last.ret)
          /\ \A h \in StarHubs(Self) : last.ret = <<h>>

\* articulation_points ran on a star with three leaves whose hub is not the
\* DFS root (index 0) and returned the hub.
C7_Witness ==
    /\ last.op = "articulation_points"
    /\ node_count(Self) = 4
    /\ \E h \in StarHubs(Self) : h # 0 /\ last.ret = <<h>>

\* articulation_points ran on a graph where a vertex of a cycle is a cut
\* vertex and the root of the DFS (index 0) is not.
C7_WitnessCycle ==
    /\ last.op = "articulation_points"
    /\ Cardinality(UndirectedEdges(Self)) = 4
    /\ CutEdges(Self) # UndirectedEdges(Self)
    /\ Len(last.ret) = 1
    /\ last.ret[1] # 0

\* C8: bridges returns exactly the undirected edges whose removal increases
\* the number of connected components of the undirected simple view, each
\* once, as (lo, hi) with lo < hi, whatever the direction of the stored edge
\* and the order the neighbour sets are iterated in.
C8_BridgesExact ==
    last.op = "bridges"
       => /\ {{p[1], p[2]} : p \in Range(last.ret)} = CutEdges(Self)
          /\ NoDup(last.ret)
          /\ \A i \in 1..Len(last.ret) : last.ret[i][1] < last.ret[i][2]

\* bridges ran on a graph with a cycle and reported a bridge that is stored
\* only as the edge (hi, lo).
C8_Witness ==
    /\ last.op = "bridges"
    /\ Len(last.ret) >= 1
    /\ Len(last.ret) < Cardinality(UndirectedEdges(Self))
    /\ \E i \in 1..Len(last.ret) :
          /\ Contains(adj[last.ret[i][2] + 1], last.ret[i][1])
          /\ ~Contains(adj[last.ret[i][1] + 1], last.ret[i][2])

\* C9: coverage_set returns edges_covered <= total_edges, total_edges being
\* the graph's edge count, so that coverage_ratio <= 1.0.
C9_EdgesCoveredAtMostTotal ==
    last.op = "coverage_set"
       => /\ last.ret.total_edges = edge_count
          /\ last.ret.edges_covered <= last.ret.total_edges
          /\ last.ret.coverage_ratio.num <= last.ret.coverage_ratio.den

\* C10: coverage_set returns at most limit items and at most node_count
\* items.
C10_ItemsAtMostLimit ==
    last.op = "coverage_set"
       => /\ Len(last.ret.items) <= last.limit
          /\ Len(last.ret.items) <= node_count(Self)

\* coverage_set stopped at limit 1 with an edge left that the selected node
\* does not touch.
C10_Witness ==
    /\ last.op = "coverage_set"
    /\ last.limit = 1
    /\ Len(last.ret.items) = 1
    /\ \E e \in EdgeSet(Self) :
          e[1] # last.ret.items[1].node /\ e[2] # last.ret.items[1].node

\* The hubs of g when g is a star with k >= 1 leaves (k = node_count - 1):
\* g has exactly k edges, each joins the hub and a leaf in either direction,
\* and every other node is a leaf.  With one leaf either node is the hub.
StarHubsK(g) ==
    {h \in Vertices(g) :
        /\ node_count(g) >= 2
        /\ g.edge_count = node_count(g) - 1
        /\ \A e \in EdgeSet(g) : (e[1] = h) # (e[2] = h)
        /\ \A l \in Vertices(g) \ {h} : {h, l} \in UndirectedEdges(g)}

\* C11 as stated: for a star with a hub and k >= 1 leaves and any
\* limit >= 1, wherever the hub is inserted, the first item selected by
\* coverage_set is the hub with edges_added = k.
C11_StarHubFirstAnyK ==
    (last.op = "coverage_set" /\ last.limit >= 1)
       => \A h \in StarHubsK(Self) :
             /\ Len(last.ret.items) >= 1
             /\ last.ret.items[1] = CoverageItem(h, node_count(Self) - 1)

\* C11: for a star with a hub and k >= 2 leaves (one edge per leaf, in
\* either direction) and any limit >= 1, wherever the hub is inserted, the
\* first item selected by coverage_set is the hub with edges_added = k; with
\* k = 1 hub and leaf tie and the first item is the node of index 0, the hub
\* only when it was inserted first, with edges_added = 1.
C11_StarHubFirst ==
    (last.op = "coverage_set" /\ last.limit >= 1)
       => \A h \in StarHubsK(Self) :
             /\ Len(last.ret.items) >= 1
             /\ last.ret.items[1] =
                   IF node_count(Self) >= 3
                   THEN CoverageItem(h, node_count(Self) - 1)
                   ELSE CoverageItem(0, 1)

\* coverage_set with limit 1 ran on a star with three leaves whose hub was
\* inserted last and has both incoming and outgoing edges, and selected it.
C11_Witness ==
    /\ last.op = "coverage_set"
    /\ last.limit = 1
    /\ 3 \in StarHubsK(Self)
    /\ in_degree(Self, 3) >= 1
    /\ out_degree(Self, 3) >= 1
    /\ last.ret.items = <<CoverageItem(3, 3)>>

\* coverage_set ran on the star with one leaf whose hub was inserted second.
C11_WitnessOneLeaf ==
    /\ last.op = "coverage_set"
    /\ last.limit >= 1
    /\ 1 \in StarHubsK(Self)
    /\ node_count(Self) = 2
    /\ last.ret.items[1].node = 0

(***************************************************************************)
(* Properties of subgraph.rs (specification SpecSub).                      *)
(***************************************************************************)
\* The distinct in-range entries of the index list S for a graph g.
Kept(g, S) == Range(S) \cap Vertices(g)

\* The position of the first occurrence of x in S.
FirstOcc(S, x) == CHOOSE i \in 1..Len(S) : S[i] = x /\ \A j \in 1..(i - 1) : S[j] # x

\* The rank of the first occurrence of x among the distinct in-range
\* entries of S, counted from 0.
NewIndex(g, S, x) ==
    Cardinality({y \in Kept(g, S) : FirstOcc(S, y) < FirstOcc(S, x)})

\* The edges of g with both endpoints among the entries of S, renumbered.
InducedEdges(g, S) ==
    {<<NewIndex(g, S, e[1]), NewIndex(g, S, e[2])>> :
        e \in {x \in EdgeSet(g) : x[1] \in Kept(g, S) /\ x[2] \in Kept(g, S)}}

\* The first occurrences of the in-range entries of S, in the order of S.
RECURSIVE Clean(_, _, _)
Clean(g, S, i) ==
    IF i > Len(S) THEN <<>>
    ELSE IF S[i] \in Vertices(g) /\ FirstOcc(S, S[i]) = i
         THEN <<S[i]>> \o Clean(g, S, i + 1)
         ELSE Clean(g, S, i + 1)

\* C12: the edges of extract_subgraph(g, S) are exactly the images, under
\* the old -> new index map, of the edges (u, v) of g with u and v both in
\* S, each counted once and stored in both adjacency directions; when S
\* holds every node of g, in any order and with or without repeats, the edge
\* count is that of g.
C12_SubgraphEdgesInduced ==
    last.op = "subgraph"
       => /\ EdgeSet(last.ret) = InducedEdges(Self, last.indices)
          /\ last.ret.edge_count = Cardinality(InducedEdges(Self, last.indices))
          /\ \A u, v \in Vertices(last.ret) :
                Contains(last.ret.adj[u + 1], v) <=> Contains(last.ret.rev_adj[v + 1], u)
          /\ \A u \in Vertices(last.ret) : NoDup(last.ret.adj[u + 1])
          /\ (Kept(Self, last.indices) = Vertices(Self)
                => last.ret.edge_count = edge_count)

\* extract_subgraph ran on a graph of three edges with a list that starts
\* with a node other than 0, drops a node with an incident edge and keeps
\* an edge between two renumbered nodes.
C12_Witness ==
    /\ last.op = "subgraph"
    /\ edge_count = 3
    /\ Len(last.indices) >= 2
    /\ last.indices[1] # 0
    /\ last.ret.edge_count >= 1
    /\ last.ret.edge_count < edge_count
    /\ \E e \in EdgeSet(last.ret) : e[1] # e[2]

\* extract_subgraph ran with a list that holds every node of a graph of
\* three edges, not in index order and with a repeat.
C12_WitnessFull ==
    /\ last.op = "subgraph"
    /\ edge_count = 3
    /\ node_count(Self) = 2
    /\ last.indices = <<1, 0, 1>>
    /\ last.ret.edge_count = 3

\* C13: extract_subgraph(g, S) has one node per distinct in-range entry of
\* S and no others; the node's new index is the rank of its first
\* occurrence in S among the distinct in-range entries, its key is the key
\* it has in g, and out-of-range or repeated entries change nothing: the
\* result is that for S with those entries struck out.
C13_SubgraphNodesRenumbered ==
    last.op = "subgraph"
       => /\ node_count(last.ret) = Cardinality(Kept(Self, last.indices))
          /\ Len(last.ret.adj) = node_count(last.ret)
          /\ Len(last.ret.rev_adj) = node_count(last.ret)
          /\ \A x \in Kept(Self, last.indices) :
                /\ node_id(last.ret, NewIndex(Self, last.indices, x)) = node_id(Self, x)
                /\ node_idx(last.ret, nodes[x + 1])
                      = Some(NewIndex(Self, last.indices, x))
          /\ DOMAIN last.ret.node_index = {nodes[x + 1] : x \in Kept(Self, last.indices)}
          /\ last.ret = extract_subgraph(Self, Clean(Self, last.indices, 1))

\* extract_subgraph ran with a list that holds an out-of-range entry and a
\* repeated entry and whose first entry is the last node of the graph.
C13_Witness ==
    /\ last.op = "subgraph"
    /\ node_count(Self) = 3
    /\ edge_count >= 1
    /\ Len(last.indices) = 3
    /\ last.indices[1] = 2
    /\ last.indices[2] = 2
    /\ last.indices[3] = 3
    /\ node_count(last.ret) = 1
    /\ node_id(last.ret, 0) = Some("c")

\* extract_subgraph renumbered two nodes against their order in the graph.
C13_WitnessReorder ==
    /\ last.op = "subgraph"
    /\ last.indices = <<2, 0, 2>>
    /\ node_count(Self) = 3
    /\ last.ret.nodes = <<"c", "a">>

\* The nodes reached from the set R along the edges of E, R included.
RECURSIVE Closure(_, _)
Closure(E, R) ==
    LET R2 == R \cup {e[2] : e \in {x \in E : x[1] \in R}}
    IN  IF R2 = R THEN R ELSE Closure(E, R2)

\* The nodes reachable from s along successor edges, s included.
Descendants(g, s) == Closure(EdgeSet(g), {s})

\* The nodes from which s is reachable along successor edges, s included.
Ancestors(g, s) == Closure({<<e[2], e[1]>> : e \in EdgeSet(g)}, {s})

\* C14: for an in-range source s, reachable_from(s) lists without
\* repetition exactly the nodes reachable from s along successor edges, s
\* itself first, and reachable_to(s) lists without repetition exactly the
\* nodes from which s is reachable, s itself first; for s >= node_count both
\* return the empty list.
C14_ReachabilityExact ==
    /\ last.op = "reachable_from"
          => IF last.node < node_count(Self)
             THEN /\ Range(last.ret) = Descendants(Self, last.node)
                  /\ NoDup(last.ret)
                  /\ last.ret[1] = last.node
             ELSE last.ret = <<>>
    /\ last.op = "reachable_to"
          => IF last.node < node_count(Self)
             THEN /\ Range(last.ret) = Ancestors(Self, last.node)
                  /\ NoDup(last.ret)
                  /\ last.ret[1] = last.node
             ELSE last.ret = <<>>

\* reachable_to ran from a node with two predecessors stored against their
\* index order, one of them on a cycle with the node, and listed all three
\* nodes.
C14_Witness ==
    /\ last.op = "reachable_to"
    /\ node_count(Self) = 3
    /\ last.node = 0
    /\ rev_adj[1] = <<2, 1>>
    /\ \E p \in {1, 2} : Contains(adj[1], p)
    /\ last.ret = <<0, 2, 1>>

\* reachable_from ran from a node that does not reach every node and that
\* lies on a cycle.
C14_WitnessFrom ==
    /\ last.op = "reachable_from"
    /\ node_count(Self) = 3
    /\ Len(last.ret) = 2
    /\ last.node # 0
    /\ Contains(adj[last.ret[2] + 1], last.node)

\* reachable_from and reachable_to ran with a source of node_count on a
\* graph with edges.
C14_WitnessOutOfRange ==
    /\ last.op \in {"reachable_from", "reachable_to"}
    /\ last.node = node_count(Self)
    /\ edge_count > 0

\* C15: dependency_cone(v) contains each index at most once and its set of
\* indices is the union of those of reachable_to(v) and reachable_from(v),
\* which are the ancestors and descendants of v; it contains v exactly once
\* when v is in range, also when v lies on a cycle, and is empty when v is
\* out of range.
C15_DependencyConeUnion ==
    last.op = "dependency_cone"
       => /\ NoDup(last.ret)
          /\ Range(last.ret) = Range(reachable_to(Self, last.node))
                                  \cup Range(reachable_from(Self, last.node))
          /\ IF last.node < node_count(Self)
             THEN /\ Cardinality({i \in 1..Len(last.ret) : last.ret[i] = last.node}) = 1
                  /\ Range(last.ret) = Ancestors(Self, last.node)
                                          \cup Descendants(Self, last.node)
             ELSE last.ret = <<>>

\* dependency_cone ran for a node on a cycle of length 3: every node is
\* both an ancestor and a descendant.
C15_Witness ==
    /\ last.op = "dependency_cone"
    /\ node_count(Self) = 3
    /\ edge_count = 3
    /\ \A u \in 0..2 : Len(adj[u + 1]) = 1 /\ ~Contains(adj[u + 1], u)
    /\ Len(last.ret) = 3

\* dependency_cone ran for a node with an ancestor that is not a descendant
\* and a descendant that is not an ancestor.
C15_WitnessChain ==
    /\ last.op = "dependency_cone"
    /\ Len(last.ret) = 3
    /\ Len(reachable_to(Self, last.node)) = 2
    /\ Len(reachable_from(Self, last.node)) = 2

(***************************************************************************)
(* Properties of articulation.rs and coverage.rs on particular shapes of   *)
(* graph (specifications SpecAlg, SpecCut and SpecRing).                   *)
(***************************************************************************)
\* C16: on a graph with no edges, whatever its number of nodes,
\* articulation_points returns the empty list, bridges returns the empty
\* list, and coverage_set returns no items with edges_covered = 0 and
\* coverage_ratio = 1.0 for every limit.
C16_NoEdges ==
    edge_count = 0
       => /\ last.op = "articulation_points" => last.ret = <<>>
          /\ last.op = "bridges" => last.ret = <<>>
          /\ last.op = "coverage_set"
                => /\ last.ret.items = <<>>
                   /\ last.ret.edges_covered = 0
                   /\ last.ret.total_edges = 0
                   /\ last.ret.coverage_ratio = Ratio(1, 1)

\* coverage_set ran with a limit above the node count on a graph of several
\* nodes and no edges.
C16_Witness ==
    /\ last.op = "coverage_set"
    /\ edge_count = 0
    /\ node_count(Self) >= 2
    /\ last.limit > node_count(Self)

\* coverage_set ran on the graph without nodes and on the graph of one node.
C16_WitnessEmpty ==
    /\ last.op = "coverage_set"
    /\ node_count(Self) = 0
    /\ last.limit = 0

C16_WitnessSingle ==
    /\ last.op = "coverage_set"
    /\ node_count(Self) = 1
    /\ edge_count = 0

\* articulation_points and bridges ran on a graph of several nodes and no
\* edges.
C16_WitnessCut ==
    /\ last.op = "articulation_points"
    /\ edge_count = 0
    /\ node_count(Self) >= 2

C16_WitnessBridges ==
    /\ last.op = "bridges"
    /\ edge_count = 0
    /\ node_count(Self) \in {0, 1, 3}

\* The ways of walking g as a path: the orderings p of its n >= 2 nodes such
\* that g has exactly n - 1 edges, one between each consecutive pair of p
\* in either direction.
Paths(g) ==
    IF node_count(g) < 2 \/ g.edge_count # node_count(g) - 1 THEN {}
    ELSE LET E == UndirectedEdges(g)
         IN  IF Cardinality(E) # node_count(g) - 1 THEN {}
             ELSE {p \in Orderings(Vertices(g)) :
                      E = {{p[i], p[i + 1]} : i \in 1..(Len(p) - 1)}}

\* C17: on a path of n >= 2 nodes, whatever index each node of the path has
\* and whatever the direction of each edge, articulation_points returns
\* exactly the n - 2 interior nodes and bridges returns exactly the n - 1
\* path edges; for a -> b -> c that is the articulation point b and the
\* bridges (a, b) and (b, c).
C17_PathCuts ==
    \A p \in Paths(Self) :
       /\ last.op = "articulation_points"
             => /\ Range(last.ret) = {p[i] : i \in 2..(Len(p) - 1)}
                /\ Len(last.ret) = Len(p) - 2
                /\ (adj = <<<<1>>, <<2>>, <<>>>>) => last.ret = <<1>>
       /\ last.op = "bridges"
             => /\ Range(last.ret)
                      = {canonical_pair(p[i], p[i + 1]) : i \in 1..(Len(p) - 1)}
                /\ Len(last.ret) = Len(p) - 1
                /\ (adj = <<<<1>>, <<2>>, <<>>>>)
                      => Range(last.ret) = {<<0, 1>>, <<1, 2>>}

\* articulation_points ran on a path of four nodes whose ends are not the
\* nodes 0 and 3 and whose edges do not all point the same way.
C17_Witness ==
    /\ last.op = "articulation_points"
    /\ \E p \in Paths(Self) :
          /\ Len(p) = 4
          /\ p[1] \notin {0, 3}
          /\ p[4] \notin {0, 3}
          /\ Contains(adj[p[2] + 1], p[1])
          /\ Contains(adj[p[2] + 1], p[3])
    /\ Len(last.ret) = 2

\* bridges ran on a path of four nodes that starts in the middle of the
\* index order.
C17_WitnessBridges ==
    /\ last.op = "bridges"
    /\ \E p \in Paths(Self) : Len(p) = 4 /\ p[1] = 2 /\ p[2] = 0
    /\ Len(last.ret) = 3

\* articulation_points and bridges ran on a -> b -> c and on the path of
\* two nodes.
C17_WitnessChain ==
    /\ last.op = "bridges"
    /\ adj = <<<<1>>, <<2>>, <<>>>>
    /\ Len(last.ret) = 2

C17_WitnessPair ==
    /\ last.op \in {"articulation_points", "bridges"}
    /\ node_count(Self) = 2
    /\ Paths(Self) # {}

\* C18: on a single cycle of n >= 3 nodes, or a disjoint union of such
\* cycles, articulation_points returns the empty list and bridges returns
\* the empty list, whatever index each node has and whatever the direction
\* of each edge.
C18_CyclesNoCuts ==
    (IsCycleUnion(Self) /\ last.op \in {"articulation_points", "bridges"})
       => last.ret = <<>>

\* articulation_points ran on two disjoint cycles (which on six nodes are
\* two triangles) that interleave in the index order and whose edges do not
\* all run round the cycle the same way.
C18_Witness ==
    /\ last.op = "articulation_points"
    /\ IsCycleUnion(Self)
    /\ node_count(Self) = 6
    /\ Cardinality(ConnectedComponents(Vertices(Self), UndirectedEdges(Self))) = 2
    /\ {0, 1} \notin UndirectedEdges(Self)
    /\ \E v \in Vertices(Self) : out_degree(Self, v) = 2

\* bridges ran on two disjoint triangles, and on one cycle of six nodes.
C18_WitnessBridges ==
    /\ last.op = "bridges"
    /\ IsCycleUnion(Self)
    /\ Cardinality(ConnectedComponents(Vertices(Self), UndirectedEdges(Self))) = 2

C18_WitnessHexagon ==
    /\ last.op = "bridges"
    /\ IsCycleUnion(Self)
    /\ node_count(Self) = 6
    /\ Cardinality(ConnectedComponents(Vertices(Self), UndirectedEdges(Self))) = 1

\* C19: bridges and articulation_points are functions of the graph: the
\* list returned (same elements, same order) is the one every invocation on
\* this graph returns, whatever order the neighbour sets built by
\* build_undirected_neighbors are iterated in.
C19_CutsDeterministic ==
    /\ last.op = "bridges"
          => \A neighbors \in build_undirected_neighbors(Self) :
                bridges(Self, neighbors) = last.ret
    /\ last.op = "articulation_points"
          => \A neighbors \in build_undirected_neighbors(Self) :
                articulation_points(Self, neighbors) = last.ret

\* What does hold of the two functions: articulation_points returns the
\* same list on every invocation, and bridges the same set of pairs.
C19_SameUpToOrder ==
    /\ last.op = "bridges"
          => \A neighbors \in build_undirected_neighbors(Self) :
                /\ Range(bridges(Self, neighbors)) = Range(last.ret)
                /\ Len(bridges(Self, neighbors)) = Len(last.ret)
    /\ last.op = "articulation_points"
          => \A neighbors \in build_undirected_neighbors(Self) :
                articulation_points(Self, neighbors) = last.ret

\* bridges ran on the graph with the edges (0, 1) and (0, 2) and returned
\* the bridge (0, 2) before the bridge (0, 1).
C19_BridgesOrderVaries ==
    /\ last.op = "bridges"
    /\ adj = <<<<1, 2>>, <<>>, <<>>>>
    /\ last.ret = <<<<0, 2>>, <<0, 1>>>>

(***************************************************************************)
(* Properties of coverage.rs as a vertex cover (specification SpecLayered).*)
(***************************************************************************)
\* The size of a smallest set of nodes that touches every edge of E, a set
\* of two-element sets: one end of any edge must be in the set.
RECURSIVE MinCoverSize(_)
MinCoverSize(E) ==
    IF E = {} THEN 0
    ELSE LET e == CHOOSE x \in E : TRUE
             u == CHOOSE x \in e : TRUE
             v == CHOOSE x \in e : x # u
         IN  1 + Min(MinCoverSize({x \in E : u \notin x}),
                     MinCoverSize({x \in E : v \notin x}))

\* C20: coverage_set is a 2-approximation of minimum vertex cover: on a
\* graph without self-loops and with limit >= node_count, the number of
\* selected nodes is at most twice the size of a smallest set of nodes that
\* touches every edge.
C20_TwoApproximation ==
    (/\ last.op = "coverage_set"
     /\ last.limit >= node_count(Self)
     /\ \A v \in Vertices(Self) : ~Contains(adj[v + 1], v))
       => Len(last.ret.items) <= 2 * MinCoverSize(UndirectedEdges(Self))

\* coverage_set ran on the whole layered graph and selected the fourteen
\* nodes 0..13, although the six nodes 14..19 touch every edge.
C20_GreedyFourteen ==
    /\ last.op = "coverage_set"
    /\ edge_count = Len(LayeredEdges)
    /\ \A e \in EdgeSet(Self) : e[2] \in 14..19
    /\ {last.ret.items[i].node : i \in 1..Len(last.ret.items)} = 0..13
    /\ Len(last.ret.items) = 14

(***************************************************************************)
(* Properties of articulation.rs under changes of the stored edges that    *)
(* keep the undirected simple view (specification SpecView).               *)
(***************************************************************************)
\* g with the i-th pair of its edge list stored the other way round.
ReverseEdge(g, i) ==
    LET es == edges_vec(g)
    IN  AddEdges(AddNodes(new, g.nodes),
                 [k \in 1..Len(es) |-> IF k = i THEN <<es[k][2], es[k][1]>> ELSE es[k]])

\* The graphs got from g by reversing one edge, by adding the antiparallel
\* edge next to an edge, or by adding a self-loop on a node.
SameView(g) ==
    {ReverseEdge(g, i) : i \in 1..g.edge_count}
    \cup {add_edge(g, e[2], e[1]) : e \in EdgeSet(g)}
    \cup {add_edge(g, v, v) : v \in Vertices(g)}

\* C21: articulation_points and the set of bridges depend only on the
\* undirected simple view: reversing an edge, adding the antiparallel edge
\* next to an edge or adding a self-loop leaves both unchanged, on every
\* invocation; two nodes joined by (u, v) and (v, u) and nothing else form a
\* bridge, reported once.
C21_UndirectedViewOnly ==
    /\ last.op = "articulation_points"
          => \A g \in SameView(Self) :
                /\ UndirectedEdges(g) = UndirectedEdges(Self)
                /\ \A neighbors \in build_undirected_neighbors(g) :
                      articulation_points(g, neighbors) = last.ret
    /\ last.op = "bridges"
          => /\ \A g \in SameView(Self) :
                   /\ UndirectedEdges(g) = UndirectedEdges(Self)
                   /\ \A neighbors \in build_undirected_neighbors(g) :
                         /\ Range(bridges(g, neighbors)) = Range(last.ret)
                         /\ Len(bridges(g, neighbors)) = Len(last.ret)
             /\ \A u, v \in Vertices(Self) :
                   (u < v /\ EdgeSet(Self) = {<<u, v>>, <<v, u>>})
                      => last.ret = <<<<u, v>>>>

\* bridges ran on a graph of three nodes and four edges with a self-loop
\* and a pair of antiparallel edges that is the only bridge.
C21_Witness ==
    /\ last.op = "bridges"
    /\ node_count(Self) = 3
    /\ edge_count = 4
    /\ \E v \in Vertices(Self) : Contains(adj[v + 1], v)
    /\ \E u, v \in Vertices(Self) :
          /\ u < v
          /\ Contains(adj[u + 1], v)
          /\ Contains(adj[v + 1], u)
          /\ Contains(last.ret, <<u, v>>)
    /\ Len(last.ret) = 1

\* bridges ran on two nodes joined by both (0, 1) and (1, 0) and by nothing
\* else.
C21_WitnessAntiparallel ==
    /\ last.op = "bridges"
    /\ EdgeSet(Self) = {<<0, 1>>, <<1, 0>>}
    /\ last.ret = <<<<0, 1>>>>

\* articulation_points ran on a graph with a self-loop on its only
\* articulation point and an edge stored from the higher index to the lower.
C21_WitnessCut ==
    /\ last.op = "articulation_points"
    /\ Len(last.ret) = 1
    /\ Contains(adj[last.ret[1] + 1], last.ret[1])
    /\ \E u, v \in Vertices(Self) : u < v /\ Contains(adj[v + 1], u)

(***************************************************************************)
(* Properties of the selection steps of coverage_set (specification        *)
(* SpecCov).                                                                *)
(***************************************************************************)
\* The nodes of the first k items.
SelectedUpTo(items, k) == {items[i].node : i \in 1..k}

\* The edges of g with an endpoint among the nodes of N.
Touched(g, N) == {e \in EdgeSet(g) : e[1] \in N \/ e[2] \in N}

\* The uncovered outgoing plus the uncovered incoming edges of v when the
\* edges touching N are covered.
UncoveredAt(g, N, v) ==
    Cardinality({e \in EdgeSet(g) \ Touched(g, N) : e[1] = v})
    + Cardinality({e \in EdgeSet(g) \ Touched(g, N) : e[2] = v})

\* Step k of the selection chose a node with the most uncovered incident
\* edges, the one of smallest index among those.
StepGreedy(g, items, k) ==
    LET N == SelectedUpTo(items, k - 1)
        node == items[k].node
    IN  /\ node \in Vertices(g)
        /\ \A v \in Vertices(g) : UncoveredAt(g, N, v) <= UncoveredAt(g, N, node)
        /\ \A v \in Vertices(g) :
              UncoveredAt(g, N, v) = UncoveredAt(g, N, node) => node <= v

\* edges_added of step k is the number of edges uncovered before the step
\* and covered after it.
StepCounted(g, items, k) ==
    items[k].edges_added
       = Cardinality(Touched(g, SelectedUpTo(items, k))
                        \ Touched(g, SelectedUpTo(items, k - 1)))

\* C22: at every selection step of coverage_set the chosen node has the
\* maximum number of currently uncovered incident edges (uncovered outgoing
\* plus uncovered incoming) over all nodes, it is the node of smallest index
\* among those attaining the maximum, and its edges_added is the number of
\* edges that were uncovered before the step and are covered after it.
C22_GreedyStep ==
    last.op = "coverage_set"
       => \A k \in 1..Len(last.ret.items) :
             /\ StepGreedy(Self, last.ret.items, k)
             /\ StepCounted(Self, last.ret.items, k)

\* What does hold: the choice is greedy with the smallest index at every
\* step on every graph, and edges_added is the number of newly covered
\* edges at every step whose node has no self-loop.
C22_GreedyStepButSelfLoops ==
    last.op = "coverage_set"
       => \A k \in 1..Len(last.ret.items) :
             /\ StepGreedy(Self, last.ret.items, k)
             /\ ~Contains(adj[last.ret.items[k].node + 1], last.ret.items[k].node)
                   => StepCounted(Self, last.ret.items, k)

\* coverage_set selected a node with a self-loop and reported more edges
\* added than the graph has.
C22_SelfLoopCountedTwice ==
    /\ last.op = "coverage_set"
    /\ Len(last.ret.items) >= 1
    /\ last.ret.items[1].edges_added > edge_count

\* The nodes of N touch every edge of g.
IsVertexCover(g, N) == Touched(g, N) = EdgeSet(g)

\* C23: coverage_set stops early only when nothing is left to cover: when
\* it returns fewer items than limit, every edge has an endpoint among the
\* selected nodes; so with limit >= node_count the selected nodes form a
\* vertex cover.
C23_EarlyStopMeansCovered ==
    last.op = "coverage_set"
       => LET N == SelectedUpTo(last.ret.items, Len(last.ret.items))
          IN  /\ Len(last.ret.items) < last.limit => IsVertexCover(Self, N)
              /\ last.limit >= node_count(Self) => IsVertexCover(Self, N)

\* coverage_set returned two items with a limit of three or more on a
\* graph of four edges, one of them a self-loop.
C23_Witness ==
    /\ last.op = "coverage_set"
    /\ edge_count = 4
    /\ Len(last.ret.items) = 2
    /\ last.limit >= 3
    /\ \E v \in Vertices(Self) : Contains(adj[v + 1], v)

\* coverage_set ran with limit = node_count and selected every node.
C23_WitnessAllSelected ==
    /\ last.op = "coverage_set"
    /\ node_count(Self) >= 2
    /\ last.limit = node_count(Self)
    /\ Len(last.ret.items) = node_count(Self)

(***************************************************************************)
(* Further properties of the Graph Model (specification Spec).             *)
(***************************************************************************)
\* C24: from_json(to_json(g)) has the same observable structure as g,
\* whatever order the edges of g were inserted in: for every node the
\* successor list and the predecessor list are the same sequences, and
\* in-degree and out-degree are equal.
C24_RoundTripSameLists ==
    last.op = "roundtrip"
       => /\ last.ret.ok
          /\ \A v \in 0..(Len(nodes) - 1) :
                /\ successors_slice(last.ret.graph, v) = successors_slice(Self, v)
                /\ predecessors_slice(last.ret.graph, v) = predecessors_slice(Self, v)
                /\ out_degree(last.ret.graph, v) = out_degree(Self, v)
                /\ in_degree(last.ret.graph, v) = in_degree(Self, v)

\* What does hold: the successor lists are the same sequences, the
\* predecessor lists hold the same elements, and the degrees are equal.
C24_RoundTripSameListsButOrder ==
    last.op = "roundtrip"
       => /\ last.ret.ok
          /\ \A v \in 0..(Len(nodes) - 1) :
                /\ successors_slice(last.ret.graph, v) = successors_slice(Self, v)
                /\ Range(predecessors_slice(last.ret.graph, v))
                      = Range(predecessors_slice(Self, v))
                /\ out_degree(last.ret.graph, v) = out_degree(Self, v)
                /\ in_degree(last.ret.graph, v) = in_degree(Self, v)

\* A graph whose node 0 got the predecessor 2 before the predecessor 1 was
\* round-tripped, and the copy lists the predecessors of 0 as 1, 2.
C24_PredecessorsReordered ==
    /\ last.op = "roundtrip"
    /\ Len(nodes) = 3
    /\ rev_adj[1] = <<2, 1>>
    /\ last.ret.graph.rev_adj[1] = <<1, 2>>

(***************************************************************************)
(* Graphs constructed from snapshots with repeated keys, repeated pairs    *)
(* and out-of-range pairs (specification SpecJson).  DiGraph::from_json    *)
(* (graph.rs:174-186) replays the snapshot with add_node and add_edge;     *)
(* the graph is then mutated with add_node and add_edge.                   *)
(***************************************************************************)
MaxJsonEdges == 2

\* The indices a pair of a snapshot is drawn from: with at most
\* MaxSnapNodes nodes in a snapshot, index 2 is out of range for the
\* snapshots of one or two nodes (and 0, 1 for the shorter ones).
JsonIndices == 0..2

JsonSnapshots ==
    { GraphSnapshot(ns, es) :
        ns \in SeqUpTo(Keys, MaxSnapNodes),
        es \in SeqUpTo(JsonIndices \X JsonIndices, MaxJsonEdges) }

InitJson ==
    \/ /\ nodes = new.nodes
       /\ node_index = new.node_index
       /\ adj = new.adj
       /\ rev_adj = new.rev_adj
       /\ edge_count = new.edge_count
       /\ last = [op |-> "new"]
    \/ \E json \in JsonSnapshots :
          LET r == from_json(json)
          IN  /\ r.ok
              /\ nodes = r.graph.nodes
              /\ node_index = r.graph.node_index
              /\ adj = r.graph.adj
              /\ rev_adj = r.graph.rev_adj
              /\ edge_count = r.graph.edge_count
              /\ last = [op |-> "from_json", json |-> json]

NextJson ==
    \/ \E id \in Keys : AddNode(id)
    \/ \E from \in EdgeArgs, to \in EdgeArgs : AddEdge(from, to)

SpecJson == InitJson /\ [][NextJson]_vars

RECURSIVE SumLen(_)
\* The sum of the lengths of the rows of an adjacency table, as
\* (0..n).map(|v| g.out_degree(v)).sum() computes it.
SumLen(rows) ==
    IF rows = <<>> THEN 0 ELSE Len(Head(rows)) + SumLen(Tail(rows))

\* C25: in every state reachable by add_node, add_edge and from_json
\* (snapshots with repeated keys, repeated pairs and out-of-range pairs
\* included), edge_count is the number of distinct ordered pairs stored in
\* adj, the sum of the out-degrees and the sum of the in-degrees; and no
\* step decreases node_count or edge_count.
C25_EdgeCountExact ==
    /\ [](/\ edge_count = Cardinality(EdgeSet(Self))
          /\ edge_count = SumLen(adj)
          /\ edge_count = SumLen(rev_adj)
          /\ \A v \in 0..(Len(nodes) - 1) :
                /\ out_degree(Self, v) = Len(adj[v + 1])
                /\ in_degree(Self, v) = Len(rev_adj[v + 1]))
    /\ [][/\ node_count(Self)' >= node_count(Self)
          /\ edge_count' >= edge_count]_vars

\* C25 witness: a graph built from a snapshot with a repeated key, a
\* repeated pair and an out-of-range pair, then grown by one node and one
\* edge, after which a repeated add_edge leaves the count at two.
C25_Witness ==
    /\ last.op = "add_edge"
    /\ Len(nodes) = 2
    /\ edge_count = 2
    /\ adj = << <<0, 1>>, <<>> >>
    /\ last.from = 0
    /\ last.to = 1

\* C25 witness: the state right after from_json of a snapshot that repeats
\* a key and a pair: one node, one edge.
C25_WitnessRepeated ==
    /\ last.op = "from_json"
    /\ last.json.nodes = <<"a", "a">>
    /\ last.json.edges = << <<0, 0>>, <<0, 0>> >>
    /\ Len(nodes) = 1
    /\ edge_count = 1

\* C25 witness: the state right after from_json of a snapshot with an
\* out-of-range pair, which is not counted.
C25_WitnessOutOfRange ==
    /\ last.op = "from_json"
    /\ last.json.nodes = <<"a", "b">>
    /\ last.json.edges = << <<0, 2>>, <<1, 0>> >>
    /\ edge_count = 1

(***************************************************************************)
(* The shape of every coverage_set result (specification SpecCov).         *)
(***************************************************************************)
RECURSIVE SumEdgesAdded(_)
\* items.iter().map(|i| i.edges_added).sum()
SumEdgesAdded(items) ==
    IF items = <<>> THEN 0
    ELSE Head(items).edges_added + SumEdgesAdded(Tail(items))

\* C26: in every coverage_set result no node appears in two items, every
\* item has edges_added >= 1, the edges_added values are non-increasing
\* along the selection order, and edges_covered is the sum of the items'
\* edges_added.
C26_ResultShape ==
    last.op = "coverage_set"
       => LET items == last.ret.items
          IN  /\ \A i \in 1..Len(items), j \in 1..Len(items) :
                    i # j => items[i].node # items[j].node
              /\ \A i \in 1..Len(items) : items[i].edges_added >= 1
              /\ \A i \in 1..(Len(items) - 1) :
                    items[i].edges_added >= items[i + 1].edges_added
              /\ last.ret.edges_covered = SumEdgesAdded(items)

\* C26 witness: on a graph without self-loops, a result of two items whose
\* edges_added values fall (2, then 1), the second node selected for an
\* incoming edge only.
C26_Witness ==
    /\ last.op = "coverage_set"
    /\ \A v \in 0..(Len(nodes) - 1) : <<v, v>> \notin EdgeSet(Self)
    /\ Len(last.ret.items) = 2
    /\ last.ret.items[1].edges_added = 2
    /\ last.ret.items[2].edges_added = 1
    /\ last.ret.edges_covered = 3
    /\ edge_count = 3
    /\ successors_slice(Self, last.ret.items[2].node) = <<>>

\* C26 witness: a self-loop selected with edges_added 2, then a further
\* node with edges_added 1.
C26_WitnessSelfLoop ==
    /\ last.op = "coverage_set"
    /\ Len(last.ret.items) = 2
    /\ <<last.ret.items[1].node, last.ret.items[1].node>> \in EdgeSet(Self)
    /\ last.ret.items[1].edges_added = 2
    /\ last.ret.items[2].edges_added = 1

====
